---- MODULE Spec2Model ----
(***************************************************************************)
(* Model of mmbench: the prediction benchmark workflow                     *)
(* (mmbench/workflow/predict.py: benchmark_pred_exp, get_predictor) and    *)
(* the bar plot helper (mmbench/plotting.py: plot_bar).                    *)
(*                                                                         *)
(* Numbers.  A label value is kept in tenths (v = 15 is 1.5), a p-value in *)
(* units of 1e-5, a metric value in units of 5e-5 (half of the     *)
(* last digit that the report's "0.4f" format prints).                     *)
(***************************************************************************)
EXTENDS Integers, Sequences, FiniteSets, TLC

VARIABLES
    \* ---- get_predictor, called on its own
    gp_data,        \* the labels handed to get_predictor
    gp_container,   \* "list" or "series": what holds the labels
    gp_result,      \* what the call returned ("none" before the call)
    \* ---- plot_bar, called on its own
    pb_in,          \* the arguments and the p-values the t-tests deliver
    pb_out,         \* what the call did ("none" before the call)
    \* ---- benchmark_pred_exp
    world,          \* the arguments and the files under datadir
    pc,             \* where the run is: "idle", "start", "load", "train",
                    \* "aggregate", "write_cv", "plot", "done", "failed"
    err,            \* the exception that ended the run ("none" if none)
    outdir,         \* whether the outdir directory exists
    n_samples,      \* n_samples of line 83 (0: never bound)
    pos,            \* the loops' position: qi, ki (1-based), idx (0-based)
    res,            \* res of line 100: the held-out scores of this embedding
    cv_rows,        \* best_score_list, res_cv and best_params_list, row-wise
    n_fit,          \* how many opti.fit calls have returned
    predict_results,
    res_cv_list,
    sname,
    files,          \* the files written under outdir, in order
    axes,           \* what plot_bar drew, one entry per subplot
    pairwise_stats

gpVars == <<gp_data, gp_container, gp_result>>
pbVars == <<pb_in, pb_out>>
wfVars == <<world, pc, err, outdir, n_samples, pos, res, cv_rows, n_fit,
            predict_results, res_cv_list, sname, files, axes, pairwise_stats>>
vars == <<gpVars, pbVars, wfVars>>

\* ------------------------------------------------------------------ bounds
MaxLabels == 3      \* longest label column handed to get_predictor
MaxConds == 2       \* most conditions (bars) on one plot
MaxSamples == 2     \* most resamples (n_samples) in an embedding array
MaxMetric == 7      \* largest metric value an estimator reaches (units of 5e-5)

\* ------------------------------------------------------------ label values
Str(s)   == [t |-> "str",   v |-> s]
IntL(n)  == [t |-> "int",   v |-> 10 * n]
Float(x) == [t |-> "float", v |-> x]
NaN      == [t |-> "nan",   v |-> 0]

\* The label values a column is drawn from: two strings, the integers 0 and
\* 1, the whole floats 10.0 and -2.0, the floats 1.5 and -0.5, and NaN.
LabelVals ==
    { Str(0), Str(1), IntL(0), IntL(1), Float(100), Float(-20),
      Float(15), Float(-5), NaN }

RECURSIVE SeqsUpTo(_, _)
SeqsUpTo(S, n) ==
    IF n = 0 THEN { <<>> }
    ELSE LET shorter == SeqsUpTo(S, n - 1)
         IN  shorter \cup { Append(s, x) : s \in { q \in shorter : Len(q) = n - 1 }, x \in S }

Range(s) == { s[i] : i \in DOMAIN s }

\* ------------------------------------------------------------ get_predictor

\* numpy's astype(int) on one finite number: truncation toward zero.
Trunc(v) == IF v >= 0 THEN (v \div 10) * 10 ELSE -(((-v) \div 10) * 10)

\* np.array(data): a list holding a string becomes an array of strings, a
\* pandas column holding a string stays an array of objects, numbers alone
\* become a float array when one of them is a float and an int array
\* otherwise.
NpArray(data, container) ==
    LET hasStr   == \E i \in DOMAIN data : data[i].t = "str"
        hasFloat == \E i \in DOMAIN data : data[i].t \in {"float", "nan"}
    IN  IF hasStr /\ container = "list"
        THEN [dtype |-> "str",
              elems |-> [i \in DOMAIN data |->
                            IF data[i].t = "str" THEN data[i]
                            ELSE [t |-> "str", v |-> 2 + data[i].v]]]
        ELSE IF hasStr
        THEN [dtype |-> "object", elems |-> data]
        ELSE IF hasFloat
        THEN [dtype |-> "float",
              elems |-> [i \in DOMAIN data |->
                            IF data[i].t = "int" THEN Float(data[i].v)
                            ELSE data[i]]]
        ELSE [dtype |-> "int", elems |-> data]

\* isinstance(data[0], str)
FirstIsStr(arr) == arr.elems[1].t = "str"

\* data.astype(int) and the subtraction raise on an array of objects that
\* holds a string or a NaN; a float NaN casts to some integer with a warning.
IsIntRaises(arr) ==
    /\ arr.dtype = "object"
    /\ \E i \in DOMAIN arr.elems : arr.elems[i].t \in {"str", "nan"}

\* A slip: .any() where the code has .all().
AllWhole_Any(arr) ==
    \E i \in DOMAIN arr.elems :
        /\ arr.elems[i].t # "nan"
        /\ arr.elems[i].v - Trunc(arr.elems[i].v) = 0

\* (data - data.astype(int) == 0).all(): NaN minus any integer is NaN,
\* which is not 0.
AllWhole(arr) ==
    \A i \in DOMAIN arr.elems :
        /\ arr.elems[i].t # "nan"
        /\ arr.elems[i].v - Trunc(arr.elems[i].v) = 0

ClassifierResult ==
    [kind |-> "classifier",
     predictor |-> "CalibratedClassifierCV(RidgeClassifier)",
     scorer |-> [func |-> "roc_auc_ovr", sign |-> 1],
     name |-> "AUC ROC"]

RegressorResult ==
    [kind |-> "regressor",
     predictor |-> "Ridge",
     scorer |-> [func |-> "mean_absolute_error", sign |-> -1],
     name |-> "MAE"]

ErrorResult ==
    [kind |-> "error", predictor |-> "none",
     scorer |-> [func |-> "none", sign |-> 0], name |-> "none"]

get_predictor(data, container) ==
    LET arr == NpArray(data, container)
    IN  IF FirstIsStr(arr) THEN ClassifierResult
        ELSE IF IsIntRaises(arr) THEN ErrorResult
        ELSE IF AllWhole(arr) THEN ClassifierResult
        ELSE RegressorResult

\* ------------------------------------------------- get_predictor on its own
NoResult == [kind |-> "none"]

PlotIdle ==
    /\ pb_in = [kind |-> "none"]
    /\ pb_out = [kind |-> "none"]

WorkflowIdle ==
    /\ world = [kind |-> "none"]
    /\ pc = "idle"
    /\ err = "none"
    /\ outdir = FALSE
    /\ n_samples = 0
    /\ pos = [qi |-> 1, ki |-> 1, idx |-> 0]
    /\ res = <<>>
    /\ cv_rows = <<>>
    /\ n_fit = 0
    /\ predict_results = <<>>
    /\ res_cv_list = <<>>
    /\ sname = <<>>
    /\ files = <<>>
    /\ axes = <<>>
    /\ pairwise_stats = <<>>

InitPredictor ==
    /\ gp_data \in SeqsUpTo(LabelVals, MaxLabels) \ { <<>> }
    /\ gp_container \in {"list", "series"}
    /\ gp_result = NoResult
    /\ PlotIdle
    /\ WorkflowIdle

CallGetPredictor ==
    /\ gp_result = NoResult
    /\ gp_result' = get_predictor(gp_data, gp_container)
    /\ UNCHANGED <<gp_data, gp_container, pbVars, wfVars>>

NextPredictor == CallGetPredictor

SpecPredictor == InitPredictor /\ [][NextPredictor]_vars

\* ----------------------------------------------------------------- plot_bar

\* A p-value: a number in units of 1e-5, or NaN.
P(n) == [nan |-> FALSE, v |-> n]
PNaN == [nan |-> TRUE, v |-> 0]

\* The p-values a t-test is taken to deliver: 0.00005, each threshold
\* itself (0.0001, 0.001, 0.05, 1.0) and NaN.
PVals == { P(5), P(10), P(100), P(5000), P(100000), PNaN }

\* one_sample_thresh / pairwise_sample_thresh: (1, .05, .001, .0001)
Thresh == [i \in 0..3 |-> CASE i = 0 -> 100000 [] i = 1 -> 5000
                            [] i = 2 -> 100 [] OTHER -> 10]
\* one_sample_stars / pairwise_sample_stars
StarLabels == [i \in 0..3 |-> CASE i = 0 -> "n.s." [] i = 1 -> "*"
                                [] i = 2 -> "**" [] OTHER -> "***"]

\* A slip: <= where the code has <.
Below_OrEqual(p, t) == ~p.nan /\ p.v <= t

\* pvalue < thresh, elementwise; a comparison with NaN is False.
Below(p, t) == ~p.nan /\ p.v < t

\* np.nonzero(pvalue < thresh)[0]
NonZero(p) == { i \in DOMAIN Thresh : Below(p, Thresh[i]) }

SetMax(S) == CHOOSE m \in S : \A x \in S : x <= m

\* max(np.nonzero(...)[0]): -1 stands for the ValueError max() raises on
\* an empty array.
SigIdx(p) == IF NonZero(p) = {} THEN -1 ELSE SetMax(NonZero(p))

\* A condition name is kept as its "_"-separated parts; the tick label is
\* the name without its last part.
TickText(name) == SubSeq(name, 1, Len(name) - 1)

\* ttest(data[name1], data[name2]).pvalue: the test of a condition against
\* itself gives 1.0, the test of two conditions does not depend on their
\* order.
PairP(inp, i, j) ==
    IF i = j THEN P(100000)
    ELSE IF i < j THEN inp.pPair[<<i, j>>] ELSE inp.pPair[<<j, i>>]

\* The one-sample loop: the tick labels with their stars, or "raised".
RECURSIVE OneSampleLoop(_, _, _)
OneSampleLoop(inp, idx, labels) ==
    IF idx = Len(inp.xlabels) THEN [kind |-> "ok", labels |-> labels]
    ELSE LET s == SigIdx(inp.pOne[idx])
         IN  IF s = -1 THEN [kind |-> "raised", labels |-> labels]
             ELSE OneSampleLoop(inp, idx + 1,
                      [labels EXCEPT ![idx + 1].stars = StarLabels[s]])

\* A slip: the table filled for the pairs of distinct conditions only.
RECURSIVE PairwiseRows_NoSelf(_, _, _, _)
PairwiseRows_NoSelf(inp, idx1, idx2, rows) ==
    LET size == Len(inp.xlabels)
    IN  IF idx1 = size THEN rows
        ELSE IF idx2 = size THEN PairwiseRows_NoSelf(inp, idx1 + 1, 0, rows)
        ELSE PairwiseRows_NoSelf(inp, idx1, idx2 + 1,
                 IF idx1 = idx2 THEN rows
                 ELSE Append(rows, [qname |-> inp.key,
                                    src |-> inp.xlabels[idx1 + 1],
                                    dest |-> inp.xlabels[idx2 + 1],
                                    pval |-> PairP(inp, idx1, idx2)]))

\* The two nested loops that fill the pairwise table, one row appended
\* per (idx1, idx2).
RECURSIVE PairwiseRows(_, _, _, _)
PairwiseRows(inp, idx1, idx2, rows) ==
    LET size == Len(inp.xlabels)
    IN  IF idx1 = size THEN rows
        ELSE IF idx2 = size THEN PairwiseRows(inp, idx1 + 1, 0, rows)
        ELSE PairwiseRows(inp, idx1, idx2 + 1,
                 Append(rows, [qname |-> inp.key,
                               src |-> inp.xlabels[idx1 + 1],
                               dest |-> inp.xlabels[idx2 + 1],
                               pval |-> PairP(inp, idx1, idx2)]))

\* list(combinations(range(size), 2)), in its order.
RECURSIVE Combinations(_, _, _, _)
Combinations(size, i, j, acc) ==
    IF i >= size - 1 THEN acc
    ELSE IF j = size THEN Combinations(size, i + 1, i + 2, acc)
    ELSE Combinations(size, i, j + 1, Append(acc, <<i, j>>))

\* The pairwise stars loop: the annotated pairs, or "raised".
RECURSIVE PairwiseStarsLoop(_, _, _, _)
PairwiseStarsLoop(inp, comps, c, annotations) ==
    IF c > Len(comps) THEN [kind |-> "ok", annotations |-> annotations]
    ELSE LET sig_idx == SigIdx(PairP(inp, comps[c][1], comps[c][2]))
         IN  IF sig_idx = -1
             THEN [kind |-> "raised", annotations |-> annotations]
             ELSE IF sig_idx # 0
             THEN PairwiseStarsLoop(inp, comps, c + 1,
                      Append(annotations,
                             [pair |-> <<inp.xlabels[comps[c][1] + 1],
                                         inp.xlabels[comps[c][2] + 1]>>,
                              stars |-> StarLabels[sig_idx]]))
             ELSE PairwiseStarsLoop(inp, comps, c + 1, annotations)

\* plot_bar: what it draws and returns, or where it raises.
plot_bar(inp) ==
    LET plain == [i \in 1..Len(inp.xlabels) |->
                     [text |-> TickText(inp.xlabels[i]), stars |-> "none"]]
        one   == IF inp.do_one_sample_stars
                 THEN OneSampleLoop(inp, 0, plain)
                 ELSE [kind |-> "ok", labels |-> plain]
        table == IF inp.report_t \/ inp.do_pairwise_stars
                 THEN [isNone |-> FALSE, rows |-> PairwiseRows(inp, 0, 0, <<>>)]
                 ELSE [isNone |-> TRUE, rows |-> <<>>]
        comps == Combinations(Len(inp.xlabels), 0, 1, <<>>)
        pair  == IF inp.do_pairwise_stars
                 THEN PairwiseStarsLoop(inp, comps, 1, <<>>)
                 ELSE [kind |-> "ok", annotations |-> <<>>]
    IN  IF one.kind = "raised"
        THEN [kind |-> "raised", at |-> "one_sample", xtick |-> one.labels,
              annotations |-> <<>>, table |-> [isNone |-> TRUE, rows |-> <<>>]]
        ELSE IF pair.kind = "raised"
        THEN [kind |-> "raised", at |-> "pairwise", xtick |-> one.labels,
              annotations |-> <<>>, table |-> [isNone |-> TRUE, rows |-> <<>>]]
        ELSE [kind |-> "returned", at |-> "end", xtick |-> one.labels,
              annotations |-> pair.annotations, table |-> table]

\* ------------------------------------------------------ plot_bar on its own

\* The condition names a plot is drawn for.
CondNames == << <<"MoPoe", "hbn">>, <<"sMCVAE", "hbn">>, <<"PLS", "X", "hbn">> >>

PairsBelow(k) == { <<i, j>> : i \in 0..(k - 1), j \in 0..(k - 1) }

PlotInputs ==
    UNION { [kind : {"call"},
             key : {"age"},
             xlabels : { SubSeq(CondNames, 1, k) },
             report_t : BOOLEAN,
             do_pairwise_stars : BOOLEAN,
             do_one_sample_stars : BOOLEAN,
             pOne : [0..(k - 1) -> PVals],
             pPair : [{ c \in PairsBelow(k) : c[1] < c[2] } -> PVals]]
            : k \in 1..MaxConds }

GetPredictorIdle ==
    /\ gp_data = <<>>
    /\ gp_container = "list"
    /\ gp_result = NoResult

InitPlot ==
    /\ pb_in \in PlotInputs
    /\ pb_out = [kind |-> "none"]
    /\ GetPredictorIdle
    /\ WorkflowIdle

CallPlotBar ==
    /\ pb_out.kind = "none"
    /\ pb_in.kind # "none"
    /\ pb_out' = plot_bar(pb_in)
    /\ UNCHANGED <<gpVars, pb_in, wfVars>>

NextPlot == CallPlotBar

SpecPlot == InitPlot /\ [][NextPlot]_vars

\* -------------------------------------------------------- benchmark_pred_exp

\* The embedding keys of the archives; a key is kept as its "_"-separated
\* parts, as plot_bar splits it.
KeyA == <<"MoPoe", "avg">>
KeyB == <<"sMCVAE", "avg">>

\* The key orders of latent_vecs_test_<dataset>.npz and of
\* latent_vecs_train_<dataset>.npz.
TestKeyChoices == { <<>>, <<KeyA>>, <<KeyB>>, <<KeyA, KeyB>>, <<KeyB, KeyA>> }
TrainKeyChoices == { <<>>, <<KeyA>>, <<KeyB>>, <<KeyA, KeyB>> }

\* The columns of latent_meta_train_<dataset>.tsv and of
\* latent_meta_test_<dataset>.tsv.
TrainColChoices ==
    { <<>>, <<"age", "sex">>, <<"site", "age", "sex">>,
      <<"site", "age", "sex", "fsiq", "asd">> }
TestColChoices ==
    { <<>>, <<"age", "sex">>, <<"sex", "age", "site">>,
      <<"site", "age", "sex", "fsiq", "asd">> }

\* The last dimension of an embedding array.
LatentDims == {16, 32}
TrainDim(key) == 16

\* The labels of a metadata column (the same kinds in both tables): sites
\* are strings, ages are floats, sex and asd are integers, fsiq is stored
\* as whole floats.
ColumnLabels(qname) ==
    CASE qname = "site" -> <<Str(0), Str(1), Str(0)>>
      [] qname = "age"  -> <<Float(105), Float(120), Float(87)>>
      [] qname = "sex"  -> <<IntL(0), IntL(1), IntL(1)>>
      [] qname = "fsiq" -> <<Float(1000), Float(950), Float(1100)>>
      [] OTHER          -> <<IntL(1), IntL(0), IntL(0)>>

Worlds ==
    { w \in [kind : {"run"},
             dataset : {"hbn", "euaims", "other"},
             outdir_exists : BOOLEAN,
             test_keys : TestKeyChoices,
             train_keys : TrainKeyChoices,
             cols_train : TrainColChoices,
             cols_test : TestColChoices,
             n_train : [{KeyA, KeyB} -> 1..MaxSamples],
             n_test : [{KeyA, KeyB} -> 1..MaxSamples],
             dim_test : [{KeyA, KeyB} -> LatentDims]] :
        \* an array that is in no archive has no shape
        /\ \A k \in {KeyA, KeyB} \ Range(w.train_keys) : w.n_train[k] = 1
        /\ \A k \in {KeyA, KeyB} \ Range(w.test_keys) :
               w.n_test[k] = 1 /\ w.dim_test[k] = 16 }

\* sorted(a) == sorted(b): the same elements, each as many times.
Count(s, x) == Cardinality({ i \in DOMAIN s : s[i] = x })
SameSorted(a, b) ==
    /\ Len(a) = Len(b)
    /\ \A x \in Range(a) \cup Range(b) : Count(a, x) = Count(b, x)

\* The assertions of lines 67-82, in their order.
KeysAssertion(w) == SameSorted(w.test_keys, w.train_keys)
ColumnsAssertion(w) == SameSorted(w.cols_test, w.cols_train)
\* A slip: the assertion placed after the loop, where it sees the last key
\* only.
DimAssertion_LastOnly(w) ==
    w.test_keys # <<>> =>
        TrainDim(w.test_keys[Len(w.test_keys)]) =
            w.dim_test[w.test_keys[Len(w.test_keys)]]

DimAssertion(w) ==
    \A i \in DOMAIN w.test_keys :
        TrainDim(w.test_keys[i]) = w.dim_test[w.test_keys[i]]

\* demo_scores of lines 89-94; "unbound" for any other dataset.
DemoScores(dataset) ==
    CASE dataset = "hbn"    -> [bound |-> TRUE, cols |-> {"site", "age", "sex"}]
      [] dataset = "euaims" -> [bound |-> TRUE,
                                cols |-> {"site", "age", "sex", "fsiq", "asd"}]
      [] OTHER              -> [bound |-> FALSE, cols |-> {}]

\* The grid of lines 106-113: 7 values of alpha times 5 solvers.
GridSize == 35

\* What the fitted estimators reach on the data: the metric (AUC or mean
\* absolute error, never negative) of grid candidate cand (1..GridSize) in
\* cross-validation, and with cand = 0 the metric of the refitted best
\* estimator on the test embedding.  It is a function of the data.
MetricOracle(w, qi, ki, idx, cand) ==
    ((3 * qi + 5 * ki + 7 * idx + w.n_test[w.test_keys[ki]]) % (MaxMetric + 1))
        + (cand % 3)

\* A scorer applied to an estimator: its sign times the metric.
Score(scorer, metric) == scorer.sign * metric

\* GridSearchCV(...).fit: mean_test_score of every candidate under the
\* scorer, best_index_ the first candidate of rank 1.
MeanTestScore(w, scorer, qi, ki, idx) ==
    [c \in 1..GridSize |-> Score(scorer, MetricOracle(w, qi, ki, idx, c))]

BestIndex(scores) ==
    CHOOSE c \in DOMAIN scores :
        /\ \A d \in DOMAIN scores : scores[d] <= scores[c]
        /\ \A d \in DOMAIN scores : scores[d] = scores[c] => c <= d

\* f"{x:0.4f}": x, in units of 5e-5, rounded to units of 1e-4 (a half goes
\* to the even digit).
Format4(x) ==
    LET q == x \div 2
        r == x % 2
    IN  IF r = 0 THEN q ELSE IF q % 2 = 0 THEN q ELSE q + 1

\* The parameter grid's key prefix (lines 105-113).
ParamPrefix(name) == IF name = "AUC ROC" THEN "estimator__" ELSE ""

\* A slip: the scorer of the search reused for the held-out score.
HeldOutScorer_Unwrapped(scorer, name) == scorer

\* The scorer of line 128: for "MAE" the score function rewrapped with
\* greater_is_better=True, else the scorer get_predictor returned.
HeldOutScorer(scorer, name) ==
    IF name = "MAE" THEN [func |-> scorer.func, sign |-> 1] ELSE scorer

\* samples_train[idx] and samples_test[idx] of lines 119 and 128.
FitSample(w, key, idx) == [split |-> "train", key |-> key, idx |-> idx]
\* A slip: the score taken on the train sample.
ScoreSample_Train(w, key, idx) == [split |-> "train", key |-> key, idx |-> idx]
ScoreSample(w, key, idx) == [split |-> "test", key |-> key, idx |-> idx]

\* The output files.
PredictTsv(w) == <<"predict_", w.dataset, ".tsv">>
PredictCvTsv(w) == <<"predict_cv_", w.dataset, ".tsv">>
PairwiseTsv(w) == <<"predict_pairwise_stats.tsv">>
PredictPng(w) == <<"predict_", w.dataset, ".png">>

InitWorkflow ==
    /\ world \in Worlds
    /\ pc = "start"
    /\ err = "none"
    /\ outdir = world.outdir_exists
    /\ n_samples = 0
    /\ pos = [qi |-> 1, ki |-> 1, idx |-> 0]
    /\ res = <<>>
    /\ cv_rows = <<>>
    /\ n_fit = 0
    /\ predict_results = <<>>
    /\ res_cv_list = <<>>
    /\ sname = <<>>
    /\ files = <<>>
    /\ axes = <<>>
    /\ pairwise_stats = <<>>
    /\ GetPredictorIdle
    /\ PlotIdle

Fail(e) ==
    /\ pc' = "failed"
    /\ err' = e

\* Lines 56-60: create outdir when it is missing.
Start ==
    /\ pc = "start"
    /\ outdir' = TRUE
    /\ pc' = "load"
    /\ UNCHANGED <<world, err, n_samples, pos, res, cv_rows, n_fit,
                   predict_results, res_cv_list, sname, files, axes,
                   pairwise_stats, gpVars, pbVars>>

\* Lines 62-95: load the archives and the tables, check them, enter the
\* loop over the columns.
Load ==
    /\ pc = "load"
    /\ IF ~KeysAssertion(world) \/ ~ColumnsAssertion(world) \/ ~DimAssertion(world)
       THEN Fail("AssertionError") /\ UNCHANGED n_samples
       ELSE /\ pc' = IF world.cols_train = <<>> THEN "aggregate" ELSE "train"
            /\ err' = err
            /\ n_samples' =
                   IF world.test_keys = <<>> THEN 0
                   ELSE world.n_train[world.test_keys[Len(world.test_keys)]]
    /\ UNCHANGED <<world, outdir, pos, res, cv_rows, n_fit, predict_results,
                   res_cv_list, sname, files, axes, pairwise_stats,
                   gpVars, pbVars>>

\* std_test_score of the best candidate, never negative (units of 5e-5).
StdOracle(w, qi, ki, idx) == (qi + ki + idx) % (MaxMetric + 1)

\* One pass of the loop body of lines 103-128, with what follows the last
\* pass of a loop (lines 129-137).  fit_ok: whether opti.fit returns.
Iteration(fit_ok) ==
    LET w       == world
        cols    == w.cols_train
        keys    == w.test_keys
        qi      == pos.qi
        ki      == pos.ki
        idx     == pos.idx
        qname   == cols[qi]
        key     == keys[ki]
        gp      == get_predictor(ColumnLabels(qname), "series")
        demo    == DemoScores(w.dataset)
        scores  == MeanTestScore(w, gp.scorer, qi, ki, idx)
        best    == BestIndex(scores)
        row     == [model |-> idx,
                    best_score |-> Format4(scores[best]),
                    std_best |-> Format4(StdOracle(w, qi, ki, idx)),
                    params |-> [prefix |-> ParamPrefix(gp.name), cand |-> best]]
        scorer  == HeldOutScorer(gp.scorer, gp.name)
        entry   == [value |-> Score(scorer, MetricOracle(w, qi, ki, idx, 0)),
                    fit_on |-> FitSample(w, key, idx),
                    fit_labels |-> <<"train", qname>>,
                    selected_by |-> gp.scorer,
                    scored_on |-> ScoreSample(w, key, idx),
                    scored_labels |-> <<"test", qname>>,
                    scored_by |-> scorer]
        res2    == Append(res, entry)
        rows2   == Append(cv_rows, row)
        lastIdx == idx + 1 >= n_samples
        lastKey == ki = Len(keys)
        lastQ   == qi = Len(cols)
        same    == [pc |-> pc, err |-> err, pos |-> pos, res |-> res,
                    cv_rows |-> cv_rows, n_fit |-> n_fit,
                    predict_results |-> predict_results,
                    res_cv_list |-> res_cv_list, sname |-> sname]
        fail(e) == [same EXCEPT !.pc = "failed", !.err = e]
    IN  IF keys = <<>> THEN fail("NameError")                  \* line 137
        ELSE IF gp.kind = "error" THEN fail("ValueError")      \* line 104
        ELSE IF ~demo.bound THEN fail("NameError")             \* line 115
        ELSE IF ~(demo.cols \subseteq Range(cols)) THEN fail("KeyError")
        ELSE IF idx >= w.n_train[key] THEN fail("IndexError")  \* line 119
        ELSE IF ~fit_ok THEN fail("FitError")
        ELSE IF idx >= w.n_test[key]                           \* line 128
        THEN [fail("IndexError") EXCEPT !.n_fit = n_fit + 1]
        ELSE IF ~lastIdx
        THEN [same EXCEPT !.pos.idx = idx + 1, !.res = res2,
                          !.cv_rows = rows2, !.n_fit = n_fit + 1]
        ELSE [same EXCEPT
                 !.pc = IF lastKey /\ lastQ THEN "aggregate" ELSE "train",
                 !.pos = IF lastKey THEN [qi |-> qi + 1, ki |-> 1, idx |-> 0]
                         ELSE [qi |-> qi, ki |-> ki + 1, idx |-> 0],
                 !.res = <<>>,
                 !.cv_rows = <<>>,
                 !.n_fit = n_fit + 1,
                 !.predict_results =
                     Append(predict_results,
                            [qname |-> qname, latent |-> key, scores |-> res2]),
                 !.res_cv_list =
                     Append(res_cv_list,
                            [qname |-> qname, latent |-> key, rows |-> rows2]),
                 !.sname = IF lastKey THEN Append(sname, gp.name) ELSE sname]

TrainStep ==
    /\ pc = "train"
    /\ \E fit_ok \in BOOLEAN :
         LET o == Iteration(fit_ok)
         IN  /\ pc' = o.pc
             /\ err' = o.err
             /\ pos' = o.pos
             /\ res' = o.res
             /\ cv_rows' = o.cv_rows
             /\ n_fit' = o.n_fit
             /\ predict_results' = o.predict_results
             /\ res_cv_list' = o.res_cv_list
             /\ sname' = o.sname
    /\ UNCHANGED <<world, outdir, n_samples, files, axes, pairwise_stats,
                   gpVars, pbVars>>

\* A slip: the scores table written from inside the training loop.
WritePredict_InLoop ==
    /\ pc = "train"
    /\ files = <<>>
    /\ files' = Append(files, PredictTsv(world))
    /\ UNCHANGED <<world, pc, err, outdir, n_samples, pos, res, cv_rows, n_fit,
                   predict_results, res_cv_list, sname, axes, pairwise_stats,
                   gpVars, pbVars>>

\* Lines 139-143: the scores table; pd.concat raises on no column at all.
WritePredict ==
    /\ pc = "aggregate"
    /\ IF predict_results = <<>>
       THEN Fail("ValueError") /\ UNCHANGED files
       ELSE /\ files' = Append(files, PredictTsv(world))
            /\ pc' = "write_cv"
            /\ err' = err
    /\ UNCHANGED <<world, outdir, n_samples, pos, res, cv_rows, n_fit,
                   predict_results, res_cv_list, sname, axes, pairwise_stats,
                   gpVars, pbVars>>

\* Lines 144-152: the cross-validation report, then the figure.
WriteCv ==
    /\ pc = "write_cv"
    /\ files' = Append(files, PredictCvTsv(world))
    /\ pc' = "plot"
    /\ pos' = [qi |-> 1, ki |-> 1, idx |-> 0]
    /\ UNCHANGED <<world, err, outdir, n_samples, res, cv_rows, n_fit,
                   predict_results, res_cv_list, sname, axes, pairwise_stats,
                   gpVars, pbVars>>

\* rsa[key]: the conditions of one analysis, in insertion order.
RECURSIVE Conditions(_, _, _)
Conditions(rsa, key, i) ==
    IF i > Len(rsa) THEN <<>>
    ELSE IF rsa[i].qname = key
    THEN <<rsa[i].latent>> \o Conditions(rsa, key, i + 1)
    ELSE Conditions(rsa, key, i + 1)

\* The p-values the t-tests on the scores deliver: a function of the data.
PValueOracle(w, qi, i, j) ==
    LET h == (qi + i + 2 * j) % 6
    IN  CASE h = 0 -> P(5) [] h = 1 -> P(10) [] h = 2 -> P(100)
          [] h = 3 -> P(5000) [] h = 4 -> P(100000) [] OTHER -> PNaN

\* A slip: do_one_sample_stars left at plot_bar's default (True).
PlotBarArgs_Defaults(w, qi) ==
    LET qname == w.cols_train[qi]
        conds == Conditions(predict_results, qname, 1)
    IN  [kind |-> "call",
         key |-> qname,
         xlabels |-> conds,
         report_t |-> FALSE,
         do_pairwise_stars |-> FALSE,
         do_one_sample_stars |-> TRUE,
         pOne |-> [i \in 0..(Len(conds) - 1) |-> PValueOracle(w, qi, i, i)],
         pPair |-> [c \in { d \in PairsBelow(Len(conds)) : d[1] < d[2] } |->
                       PValueOracle(w, qi, c[1], c[2])]]

\* The call of lines 155-159: do_one_sample_stars=False is passed, report_t
\* and do_pairwise_stars keep plot_bar's defaults (False).
PlotBarArgs(w, qi) ==
    LET qname == w.cols_train[qi]
        conds == Conditions(predict_results, qname, 1)
    IN  [kind |-> "call",
         key |-> qname,
         xlabels |-> conds,
         report_t |-> FALSE,
         do_pairwise_stars |-> FALSE,
         do_one_sample_stars |-> FALSE,
         pOne |-> [i \in 0..(Len(conds) - 1) |-> PValueOracle(w, qi, i, i)],
         pPair |-> [c \in { d \in PairsBelow(Len(conds)) : d[1] < d[2] } |->
                       PValueOracle(w, qi, c[1], c[2])]]

\* Lines 153-161: one subplot.
PlotStep ==
    /\ pc = "plot"
    /\ pos.qi <= Len(world.cols_train)
    /\ LET drawn == plot_bar(PlotBarArgs(world, pos.qi))
       IN  /\ axes' = Append(axes, [qname |-> world.cols_train[pos.qi],
                                    yname |-> sname[pos.qi],
                                    plot |-> drawn])
           /\ IF drawn.kind = "raised"
              THEN Fail("ValueError") /\ UNCHANGED <<pos, pairwise_stats>>
              ELSE /\ pairwise_stats' =
                          IF ~drawn.table.isNone
                          THEN Append(pairwise_stats, drawn.table.rows)
                          ELSE pairwise_stats
                   /\ pos' = [pos EXCEPT !.qi = pos.qi + 1]
                   /\ UNCHANGED <<pc, err>>
    /\ UNCHANGED <<world, outdir, n_samples, res, cv_rows, n_fit,
                   predict_results, res_cv_list, sname, files, gpVars, pbVars>>

\* Lines 162-172: the pairwise statistics when there are any, then the image.
SaveFigure ==
    /\ pc = "plot"
    /\ pos.qi > Len(world.cols_train)
    /\ files' = Append(IF Len(pairwise_stats) > 0
                       THEN Append(files, PairwiseTsv(world)) ELSE files,
                       PredictPng(world))
    /\ pc' = "done"
    /\ UNCHANGED <<world, err, outdir, n_samples, pos, res, cv_rows, n_fit,
                   predict_results, res_cv_list, sname, axes, pairwise_stats,
                   gpVars, pbVars>>

Next ==
    \/ Start
    \/ Load
    \/ TrainStep
    \/ WritePredict
    \/ WriteCv
    \/ PlotStep
    \/ SaveFigure

Init == InitWorkflow

Spec == Init /\ [][Next]_vars

\* ======================================================== get_predictor claims

AllOfType(data, t) == \A i \in DOMAIN data : data[i].t = t
HasString(data) == \E i \in DOMAIN data : data[i].t = "str"
\* A label that is a number equal to its own integer truncation.
IsWholeNumber(l) == l.t \in {"int", "float"} /\ l.v % 10 = 0
AllWholeNumbers(data) == \A i \in DOMAIN data : IsWholeNumber(data[i])

\* C1 (as the docstring states it): labels of type int or str give a
\* classifier with the BAcc metric, any other labels a regressor with the
\* MAE metric.
C1_DocstringContract ==
    gp_result # NoResult =>
        IF AllOfType(gp_data, "int") \/ AllOfType(gp_data, "str")
        THEN gp_result.kind = "classifier" /\ gp_result.name = "BAcc"
        ELSE gp_result.kind = "regressor" /\ gp_result.name = "MAE"

C5_ReturnTable ==
    pb_out.kind = "returned" =>
        LET k == Len(pb_in.xlabels)
            rows == pb_out.table.rows
        IN  /\ pb_out.table.isNone <=>
                   (~pb_in.report_t /\ ~pb_in.do_pairwise_stars)
            /\ ~pb_out.table.isNone =>
                   /\ Len(rows) = k * k
                   /\ \A i \in 0..(k - 1) : \A j \in 0..(k - 1) :
                          /\ rows[i * k + j + 1].src = pb_in.xlabels[i + 1]
                          /\ rows[i * k + j + 1].dest = pb_in.xlabels[j + 1]
                          /\ rows[i * k + j + 1].qname = pb_in.key

\* C5 witness: a report was asked for two conditions and four rows returned.
C5_Witness ==
    /\ pb_out.kind = "returned"
    /\ pb_in.report_t
    /\ ~pb_in.do_pairwise_stars
    /\ Len(pb_in.xlabels) = 2
    /\ Len(pb_out.table.rows) = 4

\* The bands of C7: the marker of a p-value, "error" where no threshold is
\* above it.
Band(p) ==
    IF p.nan THEN "error"
    ELSE IF p.v < 10 THEN "***"
    ELSE IF p.v < 100 THEN "**"
    ELSE IF p.v < 5000 THEN "*"
    ELSE IF p.v < 100000 THEN "n.s."
    ELSE "error"

\* The pairs of distinct conditions, as positions of the x-axis labels.
PlottedPairs == { c \in PairsBelow(Len(pb_in.xlabels)) : c[1] < c[2] }

OneSampleFails ==
    /\ pb_in.do_one_sample_stars
    /\ \E i \in DOMAIN pb_in.pOne : Band(pb_in.pOne[i]) = "error"
PairwiseFails ==
    /\ pb_in.do_pairwise_stars
    /\ \E c \in PlottedPairs : Band(pb_in.pPair[c]) = "error"

AnnotationsOf(c) ==
    { n \in DOMAIN pb_out.annotations :
        pb_out.annotations[n].pair =
            <<pb_in.xlabels[c[1] + 1], pb_in.xlabels[c[2] + 1]>> }

\* C7 (as claimed): the one-sample and the pairwise marker of p are both the
\* label of p's band, 'n.s.' for .05 <= p < 1 included, and the computation
\* raises for p >= 1 or an undefined p.
C7_Original ==
    /\ pb_out.kind # "none" =>
           (pb_out.kind = "raised" <=> (OneSampleFails \/ PairwiseFails))
    /\ pb_out.kind = "returned" =>
           /\ pb_in.do_one_sample_stars =>
                  \A i \in DOMAIN pb_in.pOne :
                      pb_out.xtick[i + 1].stars = Band(pb_in.pOne[i])
           /\ pb_in.do_pairwise_stars =>
                  \A c \in PlottedPairs :
                      \E n \in AnnotationsOf(c) :
                          pb_out.annotations[n].stars = Band(pb_in.pPair[c])

\* C7 (amended): the one-sample marker of p is the label of p's band; the
\* pairwise marker is found by the same rule but drawn only when its index
\* is not 0, so a pair with .05 <= p < 1 is left without annotation; the
\* computation raises for p >= 1 or an undefined p.
C7_Markers ==
    /\ pb_out.kind # "none" =>
           (pb_out.kind = "raised" <=> (OneSampleFails \/ PairwiseFails))
    /\ pb_out.kind = "returned" =>
           /\ \A i \in DOMAIN pb_in.pOne :
                  pb_out.xtick[i + 1].stars =
                      IF pb_in.do_one_sample_stars
                      THEN Band(pb_in.pOne[i]) ELSE "none"
           /\ ~pb_in.do_pairwise_stars => pb_out.annotations = <<>>
           /\ pb_in.do_pairwise_stars =>
                  \A c \in PlottedPairs :
                      IF Band(pb_in.pPair[c]) = "n.s."
                      THEN AnnotationsOf(c) = {}
                      ELSE /\ Cardinality(AnnotationsOf(c)) = 1
                           /\ \A n \in AnnotationsOf(c) :
                                  pb_out.annotations[n].stars =
                                      Band(pb_in.pPair[c])

\* C7 witness: both kinds of stars were asked for two conditions, one p-value
\* sits on a threshold (p = .001 gives '*'), and the pair, with p = .05, was
\* left without annotation.
C7_Witness ==
    /\ pb_out.kind = "returned"
    /\ pb_in.do_one_sample_stars
    /\ pb_in.do_pairwise_stars
    /\ Len(pb_in.xlabels) = 2
    /\ pb_in.pOne[0] = P(100)
    /\ pb_out.xtick[1].stars = "*"
    /\ pb_in.pPair[<<0, 1>>] = P(5000)
    /\ pb_out.annotations = <<>>

\* =================================================== benchmark_pred_exp claims

Cols == world.cols_train
TestKeys == world.test_keys

\* The documented precondition: every embedding array, train and test, holds
\* the same number n of samples.
SameSampleCount(n) ==
    \A i \in DOMAIN TestKeys :
        world.n_train[TestKeys[i]] = n /\ world.n_test[TestKeys[i]] = n

\* C2: in a run that completes on arrays of one common number n of samples,
\* predict_results holds for every column and every key exactly n scores in
\* resample order, the score at idx from a predictor fitted on train sample
\* idx with the train labels and scored on test sample idx with the test
\* labels.
C2_ScoresPerResample ==
    \A n \in 1..(MaxSamples + 1) :
        (pc = "done" /\ SameSampleCount(n)) =>
            /\ Len(predict_results) = Len(Cols) * Len(TestKeys)
            /\ \A qi \in DOMAIN Cols : \A ki \in DOMAIN TestKeys :
                 LET e == predict_results[(qi - 1) * Len(TestKeys) + ki]
                 IN  /\ e.qname = Cols[qi]
                     /\ e.latent = TestKeys[ki]
                     /\ Len(e.scores) = n
                     /\ \A idx \in 0..(n - 1) :
                          LET sc == e.scores[idx + 1]
                          IN  /\ sc.fit_on = [split |-> "train",
                                              key |-> TestKeys[ki], idx |-> idx]
                              /\ sc.fit_labels = <<"train", Cols[qi]>>
                              /\ sc.scored_on = [split |-> "test",
                                                 key |-> TestKeys[ki], idx |-> idx]
                              /\ sc.scored_labels = <<"test", Cols[qi]>>

\* C2 witness: a run on two keys with two samples each completed.
C2_Witness ==
    /\ pc = "done"
    /\ Len(TestKeys) = 2
    /\ SameSampleCount(2)
    /\ Len(predict_results) = 2 * Len(Cols)
    /\ Len(predict_results[1].scores) = 2

\* What a subplot shows of significance: nothing at all.
NoMarkers(a) ==
    /\ a.plot.kind = "returned"
    /\ \A i \in DOMAIN a.plot.xtick : a.plot.xtick[i].stars = "none"
    /\ a.plot.annotations = <<>>
    /\ a.plot.table.isNone

\* C3 (as claimed): every bar plot of the workflow carries one-sample
\* markers on its conditions and pairwise statistics were computed for it.
C3_Original ==
    \A i \in DOMAIN axes :
        /\ \A t \in DOMAIN axes[i].plot.xtick :
               axes[i].plot.xtick[t].stars # "none"
        /\ ~axes[i].plot.table.isNone

\* C3 (amended): the bar plots of the workflow carry no significance marker:
\* plot_bar is called with one-sample stars switched off and pairwise stars
\* and the report left off, it returns None, and no pairwise statistics file
\* is written.
C3_NoMarkers ==
    /\ \A i \in DOMAIN axes : NoMarkers(axes[i])
    /\ pairwise_stats = <<>>
    /\ \A f \in DOMAIN files : files[f] # PairwiseTsv(world)

\* C3 witness: a completed run drew three subplots of two bars each.
C3_Witness ==
    /\ pc = "done"
    /\ Len(axes) = 3
    /\ \A i \in DOMAIN axes : Len(axes[i].plot.xtick) = 2

\* The inputs C4 is about.
KeySetsDiffer == Range(world.test_keys) # Range(world.train_keys)
ColumnSetsDiffer == Range(world.cols_test) # Range(world.cols_train)
SomeDimDiffers ==
    \E k \in Range(world.test_keys) \cap Range(world.train_keys) :
        world.dim_test[k] # TrainDim(k)

\* C4: when the key sets differ, the column sets differ or an embedding's
\* train and test latent dimensions differ, the run stops with an assertion
\* error, no predictor fitted and no file written; outdir alone may have
\* been created.
C4_AssertionsStop ==
    (KeySetsDiffer \/ ColumnSetsDiffer \/ SomeDimDiffers) =>
        /\ pc \in {"start", "load", "failed"}
        /\ pc = "failed" => err = "AssertionError"
        /\ n_fit = 0
        /\ files = <<>>
        /\ predict_results = <<>>
        /\ res_cv_list = <<>>
        /\ axes = <<>>

\* C4 witness: keys and columns agree, the first of two keys differs in
\* latent dimension, the run stopped and has created outdir.
C4_Witness ==
    /\ pc = "failed"
    /\ err = "AssertionError"
    /\ ~KeySetsDiffer
    /\ ~ColumnSetsDiffer
    /\ Len(world.test_keys) = 2
    /\ world.dim_test[world.test_keys[1]] # TrainDim(world.test_keys[1])
    /\ world.dim_test[world.test_keys[2]] = TrainDim(world.test_keys[2])
    /\ ~world.outdir_exists
    /\ outdir

\* The three files of a completed run, in their order.
ResultFiles == <<PredictTsv(world), PredictCvTsv(world), PredictPng(world)>>

\* C6: no result file exists before every (column, key, resample) fit has
\* finished, so a run that fails in training leaves none; the files are
\* written once each in the order predict tsv, predict_cv tsv, png, and a
\* completed run has written all three.
C6_FilesAfterFits ==
    /\ Len(files) <= 3
    /\ files = SubSeq(ResultFiles, 1, Len(files))
    /\ files # <<>> =>
           /\ pc \in {"write_cv", "plot", "done", "failed"}
           /\ n_fit = Len(Cols) * Len(TestKeys) * n_samples
           /\ Len(predict_results) = Len(Cols) * Len(TestKeys)
    /\ (pc = "failed" /\ Len(predict_results) < Len(Cols) * Len(TestKeys))
           => files = <<>>
    /\ pc = "done" => files = ResultFiles

\* C6 witness: a run of six fits completed with its three files.
C6_Witness ==
    /\ pc = "done"
    /\ n_fit = 6
    /\ files = ResultFiles

\* The columns of the metadata whose labels are not all whole numbers.
RegressionColumns == {"age"}

\* C9: for a regression column the search is scored by the negated mean
\* absolute error (every best_score <= 0) and the held-out score is the
\* mean absolute error itself (>= 0); for a classification column one
\* scorer serves both.
C9_ScorerSigns ==
    /\ \A i \in DOMAIN res_cv_list : \A r \in DOMAIN res_cv_list[i].rows :
           LET row  == res_cv_list[i].rows[r]
               qi   == ((i - 1) \div Len(TestKeys)) + 1
               ki   == ((i - 1) % Len(TestKeys)) + 1
               m(c) == MetricOracle(world, qi, ki, row.model, c)
           IN  res_cv_list[i].qname \in RegressionColumns =>
                   /\ row.best_score <= 0
                   /\ \E c \in 1..GridSize :
                          /\ \A d \in 1..GridSize : m(c) <= m(d)
                          /\ row.best_score = Format4(-m(c))
    /\ \A i \in DOMAIN predict_results :
           \A r \in DOMAIN predict_results[i].scores :
               LET sc == predict_results[i].scores[r]
               IN  IF predict_results[i].qname \in RegressionColumns
                   THEN /\ sc.value >= 0
                        /\ sc.selected_by =
                               [func |-> "mean_absolute_error", sign |-> -1]
                        /\ sc.scored_by =
                               [func |-> "mean_absolute_error", sign |-> 1]
                   ELSE /\ sc.selected_by = sc.scored_by
                        /\ sc.selected_by.func = "roc_auc_ovr"

\* C9 witness: a completed run holds a regression column with a negative
\* best_score and a positive held-out score, and a classification column.
C9_Witness ==
    /\ pc = "done"
    /\ \E i \in DOMAIN res_cv_list : \E r \in DOMAIN res_cv_list[i].rows :
           /\ res_cv_list[i].qname \in RegressionColumns
           /\ res_cv_list[i].rows[r].best_score < 0
    /\ \E i \in DOMAIN predict_results :
           /\ predict_results[i].qname \in RegressionColumns
           /\ predict_results[i].scores[1].value > 0
    /\ \E i \in DOMAIN predict_results :
           /\ predict_results[i].qname \notin RegressionColumns
           /\ predict_results[i].scores[1].value > 0

====
